---- MODULE Spec2Model ----
(***************************************************************************)
(* tinyecs: the Engine (component store, next-ID counter, component lock,  *)
(* registered entities), the owning Entity (a slice of component IDs) and  *)
(* the generic functions Each and Set of src/tinyecs.go.                   *)
(*                                                                         *)
(* Spec      the single-caller engine: every exported call is one action;  *)
(*           an Each scan is a sequence of steps, one per map entry, with  *)
(*           the visitor's calls running between them.                     *)
(* SpecEntities  several entity variables and the registered-entities     *)
(*           list.                                                         *)
(* SpecConc  goroutines calling addComponent, deleteComponent and Set, one *)
(*           action per statement, and Each with a visitor that calls      *)
(*           them; SpecConcFair adds the scheduler's fairness.             *)
(* SpecOwned one entity and the order of its owned ids.                    *)
(* SpecLinked  the linked model of the engine (the link table, AddComponents*)
(*           and DeleteComponent by value, EachEntity) under one caller.   *)
(* SpecLinkedConc  the linked addComponent and DeleteComponent, one action *)
(*           per statement.                                                *)
(***************************************************************************)
EXTENDS Integers, Sequences, FiniteSets, TLC

\* ---------------------------------------------------------------- bounds
\* nextComponentID stays <= MaxAdds (the uint64 counter is never driven to
\* its wrap-around).
MaxAdds == 2
\* at most MaxBatch components in one variadic AddComponents call
MaxBatch == 2
\* at most MaxEntities registered entities
MaxEntities == 2
\* at most MaxOwned components are added where one entity's list is followed
MaxOwned == 3

\* the component values of the tests, fields in hundredths: floater{1.0},
\* floater{1.35}, velocity{5.0}
Types == {"floater", "velocity"}
Floater100 == [type |-> "floater", val |-> 100]
Comps == {Floater100, [type |-> "floater", val |-> 135],
          [type |-> "velocity", val |-> 500]}
\* the ids a caller may pass to Set and DeleteComponent
Ids == 0..(MaxAdds - 1)
\* the caller's entity variables
EntVars == {1, 2}
\* the goroutines
Threads == {1, 2}
NoId == -1
NoThread == 0

VARIABLES
    nextComponentID,  \* Engine.nextComponentID
    components,       \* Engine.components : id -> component
    componentMtx,     \* Engine.componentMtx : NoThread, or the holder
    entities,         \* Engine.entities : sequence of entity values
    arrays,           \* backing arrays of the []uint64 slices
    ents,             \* the caller's entity variables (testEntity values)
    thr,              \* per goroutine: the statement it is at, its locals
    scan,             \* the Each call in progress
    prev,             \* what the last finished Each call wrote through Set
    returned,         \* history: ids returned by addComponent, in call order
    deleted,          \* history: ids Entity.DeleteComponent removed from the
                      \* store
    nDeleted,         \* history: number of such removals
    lastOp,           \* history: the call that made the last step
    links,            \* Engine.links (linked model) : id -> link
    escan,            \* the EachEntity call in progress
    dscan             \* the Engine.DeleteComponent(component) call in progress

\* the state of the linked model only
linked == <<links, escan, dscan>>

vars == <<nextComponentID, components, componentMtx, entities, arrays, ents,
          thr, scan, prev, returned, deleted, nDeleted, lastOp, links, escan,
          dscan>>

\* ------------------------------------------------------- the map (Go map)
\* m[id] = c for a Go map
storeSet(m, id, c) == [k \in DOMAIN m \cup {id} |-> IF k = id THEN c ELSE m[k]]

\* delete(m, id)
storeDelete(m, id) == [k \in DOMAIN m \ {id} |-> m[k]]

EmptyMap == [k \in {} |-> 0]

\* --------------------------------------------------- slices ([]uint64)
\* a slice value: backing array (0: nil slice), length, capacity
NilSlice == [arr |-> 0, len |-> 0, cap |-> 0]

\* the elements a slice value shows
View(heap, s) == IF s.arr = 0 THEN <<>> ELSE SubSeq(heap[s.arr], 1, s.len)

\* capacity append allocates when the slice is full
growCap(c) == IF c = 0 THEN 1 ELSE 2 * c

\* append(s, id): in place when capacity is left, else into a new array
appendId(heap, s, id) ==
    IF s.len < s.cap
    THEN [heap |-> [heap EXCEPT ![s.arr][s.len + 1] = id],
          s |-> [s EXCEPT !.len = s.len + 1]]
    ELSE LET c == growCap(s.cap)
             a == [i \in 1..c |-> IF i <= s.len THEN heap[s.arr][i]
                                  ELSE IF i = s.len + 1 THEN id ELSE 0]
         IN [heap |-> Append(heap, a),
             s |-> [arr |-> Len(heap) + 1, len |-> s.len + 1, cap |-> c]]

\* mutant: the last element is dropped, whatever the position
removeAt_last(heap, s, i) == [heap |-> heap, s |-> [s EXCEPT !.len = s.len - 1]]

\* append(s[:i], s[i+1:]...) for the 1-based position i: shifts the tail
\* left inside the same backing array
removeAt(heap, s, i) ==
    [heap |-> [heap EXCEPT ![s.arr] =
                  [j \in 1..s.cap |-> IF j >= i /\ j < s.len
                                      THEN heap[s.arr][j + 1]
                                      ELSE heap[s.arr][j]]],
     s |-> [s EXCEPT !.len = s.len - 1]]

\* ---------------------------------------------------------------- Engine
\* id := e.nextComponentID
assignID(n) == n

\* mutant: the increment is left out
incrementID_none(n) == n

\* e.nextComponentID++
incrementID(n) == n + 1

\* mutant: RLock() in place of Lock(), which admits every goroutine
canLock_shared(mtx, t) == TRUE

\* componentMtx.Lock() by goroutine t returns only when no one holds the lock
canLock(mtx, t) == mtx = NoThread

\* mutant: the deferred Unlock is left out
Unlock_forgotten(mtx) == mtx

\* the deferred componentMtx.Unlock()
Unlock(mtx) == NoThread

\* Engine.addComponent: the id, the store and the counter after the call
addComponent(n, m, component) ==
    LET id == assignID(n)
    IN [id |-> id, components |-> storeSet(m, id, component),
        nextComponentID |-> incrementID(n)]

\* mutant: the delete is left out
deleteComponent_kept(n, m, id) == [components |-> m, nextComponentID |-> n]

\* Engine.deleteComponent
deleteComponent(n, m, id) ==
    [components |-> storeDelete(m, id), nextComponentID |-> n]

\* mutant: the write is lost
Set_lost(m, id, component) == m

\* Set
Set(m, id, component) == storeSet(m, id, component)

\* reflect.DeepEqual of two entity values: same type, both slices nil or
\* both not, same elements
DeepEqual(heap, a, b) ==
    /\ a.type = b.type
    /\ (a.components.arr = 0) = (b.components.arr = 0)
    /\ View(heap, a.components) = View(heap, b.components)

\* mutant: the loop goes on after a removal, cutting out every equal element
RECURSIVE RemoveEntity_all(_, _, _, _)
RemoveEntity_all(heap, es, entity, i) ==
    IF i > Len(es) THEN es
    ELSE IF DeepEqual(heap, es[i], entity)
         THEN RemoveEntity_all(heap,
                  SubSeq(es, 1, i - 1) \o SubSeq(es, i + 1, Len(es)), entity, i)
         ELSE RemoveEntity_all(heap, es, entity, i + 1)

\* the loop of RemoveEntity from position i on: the first equal element is
\* cut out and the scan returns
RECURSIVE RemoveEntity(_, _, _, _)
RemoveEntity(heap, es, entity, i) ==
    IF i > Len(es) THEN es
    ELSE IF DeepEqual(heap, es[i], entity)
         THEN SubSeq(es, 1, i - 1) \o SubSeq(es, i + 1, Len(es))
         ELSE RemoveEntity(heap, es, entity, i + 1)

\* ---------------------------------------------------------------- Entity
\* the loop of AddComponents over the variadic list cs
RECURSIVE AddComponents(_, _)
AddComponents(st, cs) ==
    IF cs = <<>> THEN st
    ELSE LET r == addComponent(st.nextComponentID, st.components, Head(cs))
             a == appendId(st.heap, st.s, r.id)
         IN AddComponents([nextComponentID |-> r.nextComponentID,
                           components |-> r.components,
                           heap |-> a.heap, s |-> a.s,
                           ids |-> Append(st.ids, r.id)], Tail(cs))

\* the range loop of DeleteComponent: the first position holding id, 0 if none
RECURSIVE findId(_, _, _)
findId(list, id, i) ==
    IF i > Len(list) THEN 0
    ELSE IF list[i] = id THEN i ELSE findId(list, id, i + 1)

\* mutant: engine.deleteComponent(id) is called whether or not the id is owned
DeleteComponent_always(heap, s, n, m, id) ==
    LET i == findId(View(heap, s), id, 1)
        d == deleteComponent(n, m, id)
        r == IF i = 0 THEN [heap |-> heap, s |-> s] ELSE removeAt(heap, s, i)
    IN [heap |-> r.heap, s |-> r.s, components |-> d.components,
        nextComponentID |-> d.nextComponentID, found |-> i # 0]

\* Entity.DeleteComponent on the slice s: the slice, its array and the
\* store after the call
DeleteComponent(heap, s, n, m, id) ==
    LET i == findId(View(heap, s), id, 1)
    IN IF i = 0
       THEN [heap |-> heap, s |-> s, components |-> m,
             nextComponentID |-> n, found |-> FALSE]
       ELSE LET r == removeAt(heap, s, i)
                d == deleteComponent(n, m, id)
            IN [heap |-> r.heap, s |-> r.s, components |-> d.components,
                nextComponentID |-> d.nextComponentID, found |-> TRUE]

\* ------------------------------------------------------------------ Each
\* mutant: the cast succeeds for every component
castOk_any(component, T) == TRUE

\* c, ok := component.(T)
castOk(component, T) == component.type = T

IdleScan ==
    [status |-> "idle", owner |-> 1, T |-> "floater", f |-> "noop", seen |-> {},
     fresh |-> {}, counter |-> 0, cur |-> NoId, called |-> FALSE,
     visits |-> EmptyMap,
     wrote |-> EmptyMap, size0 |-> 0, nT0 |-> 0, obj |-> Floater100]

NoPrev == [valid |-> FALSE, T |-> "floater", wrote |-> EmptyMap]

\* the visitors: func(id, obj) {} ; the tests' obj.f += d; Set(&e, id, obj) ;
\* one that adds a component ; one that deletes the component it is passed ;
\* one that only assigns to obj (copy). Each of the last four makes its call
\* or assignment once per visit.
Visitors == {"noop", "set", "add", "delete", "copy"}

\* mutant: f is passed a reference into the store, the assignment writes it
visitorAssign_shared(m, id, c) == storeSet(m, id, c)

\* an assignment to obj inside the visitor, obj being the copy c made by
\* c, ok := component.(T) and passed by value: the store after it
visitorAssign(m, id, c) == m

\* the single caller calls the engine between its scans
CallerCtx ==
    /\ scan.status = "idle"
    /\ escan.status = "idle"
    /\ dscan.status = "idle"

\* the range loop's view after the store changed from m to m2 during a scan:
\* an entry removed is forgotten, an entry created may be produced or skipped
scanAfter(sc, m, m2) ==
    IF sc.status = "idle" THEN sc
    ELSE [sc EXCEPT !.seen = sc.seen \cap DOMAIN m2,
                    !.fresh = (sc.fresh \cap DOMAIN m2)
                                 \cup (DOMAIN m2 \ DOMAIN m)]

\* a call at top level ends the "subsequent scan" relation to the last scan
prevAfter == IF scan.status = "idle" THEN NoPrev ELSE prev

\* the visitor of goroutine t's scan, of kind f, is about to make its call
VisitorMay(t, f) ==
    /\ thr[t].pc = "idle"
    /\ scan.status = "visit"
    /\ scan.owner = t
    /\ scan.f = f
    /\ ~scan.called

\* the scan after a call was started: from the visitor, its call is made
callFrom(sc) == IF sc.status = "visit" THEN [sc EXCEPT !.called = TRUE] ELSE sc

\* a goroutine outside addComponent, deleteComponent and Set
IdleThread == [pc |-> "idle", id |-> NoId, c |-> Floater100]

\* a call; hit: its target was found (the entity owned the id, an equal
\* entity was registered); present: the id was a key of the store before the
\* call (Set, DeleteComponent), an equal entity is still registered after it
\* (RemoveEntity)
Op(name, hit, present) == [op |-> name, hit |-> hit, present |-> present]

\* ---------------------------------------------------------- linked model
\* the entity values of the linked model (Entity is struct{}: a value is its
\* type), and the entity types EachEntity is asked for
EntTypes == {"testEntity", "otherEntity"}

\* entityComponentLink: the entity, and the target of the pointer to the
\* parameter of addComponent, a copy of the component as it was added
Link(entity, component) == [entity |-> entity, component |-> component]

\* Engine.addComponent of the linked model: the store, the link table and
\* the counter after the call
linkedAddComponent(n, m, l, entity, component) ==
    LET id == assignID(n)
    IN [id |-> id, components |-> storeSet(m, id, component),
        links |-> storeSet(l, id, Link(entity, component)),
        nextComponentID |-> incrementID(n)]

\* the loop of Engine.AddComponents over the variadic list cs
RECURSIVE linkedAddComponents(_, _, _)
linkedAddComponents(st, entity, cs) ==
    IF cs = <<>> THEN st
    ELSE LET r == linkedAddComponent(st.nextComponentID, st.components,
                                     st.links, entity, Head(cs))
         IN linkedAddComponents([nextComponentID |-> r.nextComponentID,
                                 components |-> r.components,
                                 links |-> r.links,
                                 ids |-> Append(st.ids, r.id)],
                                entity, Tail(cs))

\* the range loop of Engine.DeleteComponent(component) over the entries not
\* yet produced: for each entry equal to component the link is deleted and
\* deleteComponent(id) called; the loop goes on after a match
RECURSIVE linkedDeleteComponent(_, _, _)
linkedDeleteComponent(st, component, todo) ==
    IF todo = {} THEN st
    ELSE LET id == CHOOSE k \in todo : TRUE
             hit == id \in DOMAIN st.components
                       /\ st.components[id] = component
             d == deleteComponent(st.nextComponentID, st.components, id)
         IN linkedDeleteComponent(
                IF hit
                THEN [nextComponentID |-> d.nextComponentID,
                      components |-> d.components,
                      links |-> storeDelete(st.links, id),
                      n |-> st.n + 1]
                ELSE st,
                component, todo \ {id})

\* mutant: the entity cast succeeds for every entity
castEntOk_any(entity, E) == TRUE

\* _, entOk := link.entity.(E)
castEntOk(entity, E) == entity.type = E

\* engine.components[idx].(C), the assertion without ok: it panics when the
\* store holds no value for idx or a value of another type
assertOk(m, idx, C) == idx \in DOMAIN m /\ castOk(m[idx], C)

IdleEScan ==
    [status |-> "idle", E |-> "testEntity", C |-> "floater", seen |-> {},
     counter |-> 0, visits |-> EmptyMap]

IdleDScan ==
    [status |-> "idle", owner |-> 1, c |-> Floater100, seen |-> {},
     fresh |-> {}, cur |-> NoId]

\* a statement of a goroutine inside addComponent, deleteComponent or Set
StatementOp == Op("statement", FALSE, FALSE)

\* ------------------------------------------------------------------ Init
\* NewEngine(), and the caller's entity variables as testEntity{}
Init ==
    /\ nextComponentID = 0
    /\ components = EmptyMap
    /\ componentMtx = NoThread
    /\ entities = <<>>
    /\ arrays = <<>>
    /\ ents = [v \in EntVars |-> [type |-> "testEntity", components |-> NilSlice]]
    /\ thr = [t \in Threads |-> IdleThread]
    /\ scan = IdleScan
    /\ prev = NoPrev
    /\ returned = <<>>
    /\ deleted = {}
    /\ nDeleted = 0
    /\ lastOp = Op("NewEngine", FALSE, FALSE)
    /\ links = EmptyMap
    /\ escan = IdleEScan
    /\ dscan = IdleDScan

\* --------------------------------------------------------------- actions
\* entity.AddComponents(&e, cs...)
DoAddComponents(v, cs) ==
    /\ CallerCtx
    /\ componentMtx = NoThread
    /\ LET r == AddComponents([nextComponentID |-> nextComponentID,
                               components |-> components, heap |-> arrays,
                               s |-> ents[v].components, ids |-> <<>>], cs)
       IN /\ nextComponentID' = r.nextComponentID
          /\ components' = r.components
          /\ arrays' = r.heap
          /\ ents' = [ents EXCEPT ![v].components = r.s]
          /\ returned' = returned \o r.ids
    /\ prev' = NoPrev
    /\ lastOp' = Op("AddComponents", FALSE, FALSE)
    /\ UNCHANGED <<componentMtx, entities, linked, thr, scan, deleted,
                   nDeleted>>

\* the call, while the counter stays within MaxAdds
CallAddComponents(v, cs) ==
    /\ nextComponentID + Len(cs) <= MaxAdds
    /\ DoAddComponents(v, cs)

\* the call on the entity whose list is followed, within MaxOwned
CallAddComponentsOwned(cs) ==
    /\ nextComponentID + Len(cs) <= MaxOwned
    /\ DoAddComponents(1, cs)

\* entity.DeleteComponent(&e, id)
CallDeleteComponent(v, id) ==
    /\ CallerCtx
    /\ componentMtx = NoThread
    /\ LET r == DeleteComponent(arrays, ents[v].components, nextComponentID,
                                components, id)
       IN /\ components' = r.components
          /\ nextComponentID' = r.nextComponentID
          /\ arrays' = r.heap
          /\ ents' = [ents EXCEPT ![v].components = r.s]
          /\ deleted' = IF r.found /\ id \in DOMAIN components
                        THEN deleted \cup {id} ELSE deleted
          /\ nDeleted' = IF r.found /\ id \in DOMAIN components
                         THEN nDeleted + 1 ELSE nDeleted
          /\ lastOp' = Op("DeleteComponent", r.found, id \in DOMAIN components)
    /\ prev' = NoPrev
    /\ UNCHANGED <<componentMtx, entities, linked, thr, scan, returned>>

\* tinyecs.Set(&e, id, c)
CallSet(id, c) ==
    /\ CallerCtx
    /\ componentMtx = NoThread
    /\ components' = Set(components, id, c)
    /\ prev' = NoPrev
    /\ lastOp' = Op("Set", FALSE, id \in DOMAIN components)
    /\ UNCHANGED <<nextComponentID, componentMtx, entities, linked, thr, arrays, ents,
                   scan, returned, deleted, nDeleted>>

\* e.AddEntity(entity): the entity value is copied into the list
CallAddEntity(v) ==
    /\ CallerCtx
    /\ Len(entities) < MaxEntities
    /\ entities' = Append(entities, ents[v])
    /\ prev' = NoPrev
    /\ lastOp' = Op("AddEntity", FALSE, FALSE)
    /\ UNCHANGED <<nextComponentID, components, componentMtx, linked, arrays, ents, thr,
                   scan, returned, deleted, nDeleted>>

\* e.RemoveEntity(entity)
CallRemoveEntity(v) ==
    /\ CallerCtx
    /\ entities' = RemoveEntity(arrays, entities, ents[v], 1)
    /\ prev' = NoPrev
    /\ lastOp' = Op("RemoveEntity", entities' # entities,
                    \E i \in 1..Len(entities') :
                        DeepEqual(arrays, entities'[i], ents[v]))
    /\ UNCHANGED <<nextComponentID, components, componentMtx, linked, arrays, ents, thr,
                   scan, returned, deleted, nDeleted>>

\* tinyecs.Each[T](&e, f) is called by goroutine t, while no other goroutine
\* is inside a call (iteration is not locked: the callers keep it sequential)
EachBegin(t, T, f) ==
    /\ scan.status = "idle"
    /\ \A u \in Threads : thr[u].pc = "idle"
    /\ scan' = [IdleScan EXCEPT !.status = "iter", !.owner = t, !.T = T,
                   !.f = f,
                   !.size0 = Cardinality(DOMAIN components),
                   !.nT0 = Cardinality({k \in DOMAIN components :
                                            components[k].type = T})]
    /\ lastOp' = Op("Each", FALSE, FALSE)
    /\ UNCHANGED <<nextComponentID, components, componentMtx, entities, linked, thr,
                   arrays, ents, prev, returned, deleted, nDeleted>>

\* one iteration of the range loop: the entry id is produced; when the cast
\* succeeds the counter grows and the visitor is entered with a copy
EachIter(id) ==
    /\ scan.status = "iter"
    /\ id \in DOMAIN components \ scan.seen
    /\ scan' = IF castOk(components[id], scan.T)
               THEN [scan EXCEPT !.status = "visit",
                        !.seen = @ \cup {id}, !.fresh = @ \ {id},
                        !.counter = @ + 1, !.cur = id, !.called = FALSE,
                        !.obj = components[id],
                        !.visits = storeSet(@, id,
                            IF id \in DOMAIN @
                            THEN Append(@[id], components[id])
                            ELSE <<components[id]>>)]
               ELSE [scan EXCEPT !.seen = @ \cup {id}, !.fresh = @ \ {id}]
    /\ lastOp' = Op("EachIter", FALSE, FALSE)
    /\ UNCHANGED <<nextComponentID, components, componentMtx, entities, linked, thr,
                   arrays, ents, prev, returned, deleted, nDeleted>>

\* the tests' visitor: obj.f += d; Set(&e, id, obj), with c the changed obj
VisitorSet(c) ==
    /\ scan.status = "visit"
    /\ VisitorMay(scan.owner, "set")
    /\ c.type = scan.T
    /\ componentMtx = NoThread
    /\ components' = Set(components, scan.cur, c)
    /\ scan' = [scanAfter(scan, components, components')
                  EXCEPT !.called = TRUE,
                         !.wrote = storeSet(@, scan.cur, c)]
    /\ lastOp' = Op("VisitorSet", FALSE, FALSE)
    /\ UNCHANGED <<nextComponentID, componentMtx, entities, linked, thr, arrays, ents,
                   prev, returned, deleted, nDeleted>>

\* the visitor that only changes what it was passed: obj.f += d, with c the
\* changed obj
VisitorAssign(c) ==
    /\ scan.status = "visit"
    /\ VisitorMay(scan.owner, "copy")
    /\ c.type = scan.T
    /\ components' = visitorAssign(components, scan.cur, c)
    /\ scan' = [scanAfter(scan, components, components')
                  EXCEPT !.called = TRUE, !.obj = c]
    /\ lastOp' = Op("VisitorAssign", FALSE, FALSE)
    /\ UNCHANGED <<nextComponentID, componentMtx, entities, linked, thr, arrays,
                   ents, prev, returned, deleted, nDeleted>>

\* the visitor returns, its call made (the adding visitor stops adding at
\* the bound on adds)
VisitorReturn ==
    /\ scan.status = "visit"
    /\ thr[scan.owner].pc = "idle"
    /\ \/ scan.f = "noop"
       \/ scan.called
       \/ scan.f = "add" /\ Len(returned) >= MaxAdds
    /\ scan' = [scan EXCEPT !.status = "iter", !.cur = NoId]
    /\ lastOp' = Op("VisitorReturn", FALSE, FALSE)
    /\ UNCHANGED <<nextComponentID, components, componentMtx, entities, linked, thr,
                   arrays, ents, prev, returned, deleted, nDeleted>>

\* the range loop ends: every entry left is one created during the scan
EachEnd ==
    /\ scan.status = "iter"
    /\ (DOMAIN components \ scan.seen) \subseteq scan.fresh
    /\ scan' = [scan EXCEPT !.status = "done"]
    /\ lastOp' = Op("EachEnd", FALSE, FALSE)
    /\ UNCHANGED <<nextComponentID, components, componentMtx, entities, linked, thr,
                   arrays, ents, prev, returned, deleted, nDeleted>>

\* Each returns its counter to the caller
EachReturn ==
    /\ scan.status = "done"
    /\ scan' = IdleScan
    /\ prev' = [valid |-> scan.f = "set", T |-> scan.T, wrote |-> scan.wrote]
    /\ lastOp' = Op("EachReturn", FALSE, FALSE)
    /\ UNCHANGED <<nextComponentID, components, componentMtx, entities, linked, thr,
                   arrays, ents, returned, deleted, nDeleted>>

\* the variadic lists of at most MaxBatch components over the values cs
Batches(cs) == UNION {[1..n -> cs] : n \in 0..MaxBatch}

\* the visitors of a single caller's scans
SeqVisitors == {"noop", "set", "copy"}

\* the store under one entity, Set and Each
Next ==
    \/ \E cs \in Batches(Comps) : CallAddComponents(1, cs)
    \/ \E id \in Ids : CallDeleteComponent(1, id)
    \/ \E id \in Ids, c \in Comps : CallSet(id, c)
    \/ \E T \in Types, f \in SeqVisitors : EachBegin(1, T, f)
    \/ \E id \in Ids : EachIter(id)
    \/ \E c \in Comps : VisitorSet(c)
    \/ \E c \in Comps : VisitorAssign(c)
    \/ VisitorReturn
    \/ EachEnd
    \/ EachReturn

Spec == Init /\ [][Next]_vars

\* the entities: several entity variables and the registered-entities list
NextEntities ==
    \/ \E v \in EntVars, cs \in Batches({Floater100}) : CallAddComponents(v, cs)
    \/ \E v \in EntVars, id \in Ids : CallDeleteComponent(v, id)
    \/ \E v \in EntVars : CallAddEntity(v)
    \/ \E v \in EntVars : CallRemoveEntity(v)

SpecEntities == Init /\ [][NextEntities]_vars

\* one entity and its list of owned ids
NextOwned ==
    \/ \E cs \in Batches(Comps) : CallAddComponentsOwned(cs)
    \/ \E id \in 0..(MaxOwned - 1) : CallDeleteComponent(1, id)

SpecOwned == Init /\ [][NextOwned]_vars

\* ------------------------------------------------- linked model: actions
\* e.AddComponents(entity, cs...) of the linked model
CallLinkedAddComponents(entity, cs) ==
    /\ CallerCtx
    /\ componentMtx = NoThread
    /\ nextComponentID + Len(cs) <= MaxAdds
    /\ LET r == linkedAddComponents([nextComponentID |-> nextComponentID,
                                     components |-> components,
                                     links |-> links, ids |-> <<>>],
                                    entity, cs)
       IN /\ nextComponentID' = r.nextComponentID
          /\ components' = r.components
          /\ links' = r.links
          /\ returned' = returned \o r.ids
    /\ prev' = NoPrev
    /\ lastOp' = Op("Engine.AddComponents", FALSE, FALSE)
    /\ UNCHANGED <<componentMtx, entities, arrays, ents, thr, scan, escan,
                   dscan, deleted, nDeleted>>

\* e.DeleteComponent(component) of the linked model; hit: an entry was equal
CallLinkedDeleteComponent(component) ==
    /\ CallerCtx
    /\ componentMtx = NoThread
    /\ LET r == linkedDeleteComponent([nextComponentID |-> nextComponentID,
                                       components |-> components,
                                       links |-> links, n |-> 0],
                                      component, DOMAIN components)
       IN /\ nextComponentID' = r.nextComponentID
          /\ components' = r.components
          /\ links' = r.links
          /\ lastOp' = Op("Engine.DeleteComponent", r.n > 0, FALSE)
    /\ prev' = NoPrev
    /\ UNCHANGED <<componentMtx, entities, arrays, ents, thr, scan, escan,
                   dscan, returned, deleted, nDeleted>>

\* tinyecs.EachEntity[E, C](&e, f) is called, with f the visitor that
\* touches nothing
EachEntityBegin(E, C) ==
    /\ CallerCtx
    /\ \A u \in Threads : thr[u].pc = "idle"
    /\ escan' = [IdleEScan EXCEPT !.status = "iter", !.E = E, !.C = C]
    /\ lastOp' = Op("EachEntity", FALSE, FALSE)
    /\ UNCHANGED <<nextComponentID, components, componentMtx, entities, arrays,
                   ents, thr, scan, prev, returned, deleted, nDeleted, links,
                   dscan>>

\* one iteration of the range loop over the links: when the link's component
\* and entity pass their casts the counter grows and the visitor is called
\* with the entity and the stored component, the assertion on which may panic
EachEntityIter(idx) ==
    /\ escan.status = "iter"
    /\ idx \in DOMAIN links \ escan.seen
    /\ LET link == links[idx]
           component == link.component
       IN escan' =
            IF castOk(component, escan.C) /\ castEntOk(link.entity, escan.E)
            THEN IF assertOk(components, idx, escan.C)
                 THEN [escan EXCEPT
                         !.seen = @ \cup {idx},
                         !.counter = @ + 1,
                         !.visits = storeSet(@, idx,
                            (IF idx \in DOMAIN @ THEN @[idx] ELSE <<>>)
                               \o <<[entity |-> link.entity,
                                     component |-> components[idx]]>>)]
                 ELSE [escan EXCEPT !.status = "panic", !.counter = @ + 1]
            ELSE [escan EXCEPT !.seen = @ \cup {idx}]
    /\ lastOp' = Op("EachEntityIter", FALSE, FALSE)
    /\ UNCHANGED <<nextComponentID, components, componentMtx, entities, arrays,
                   ents, thr, scan, prev, returned, deleted, nDeleted, links,
                   dscan>>

\* the range loop over the links ends
EachEntityEnd ==
    /\ escan.status = "iter"
    /\ DOMAIN links \subseteq escan.seen
    /\ escan' = [escan EXCEPT !.status = "done"]
    /\ lastOp' = Op("EachEntityEnd", FALSE, FALSE)
    /\ UNCHANGED <<nextComponentID, components, componentMtx, entities, arrays,
                   ents, thr, scan, prev, returned, deleted, nDeleted, links,
                   dscan>>

\* EachEntity returns its counter to the caller
EachEntityReturn ==
    /\ escan.status = "done"
    /\ escan' = IdleEScan
    /\ lastOp' = Op("EachEntityReturn", FALSE, FALSE)
    /\ UNCHANGED <<nextComponentID, components, componentMtx, entities, arrays,
                   ents, thr, scan, prev, returned, deleted, nDeleted, links,
                   dscan>>

\* the linked model under a single caller
NextLinked ==
    \/ \E E \in EntTypes, cs \in Batches(Comps) :
          CallLinkedAddComponents([type |-> E], cs)
    \/ \E c \in Comps : CallLinkedDeleteComponent(c)
    \/ \E id \in Ids, c \in Comps : CallSet(id, c)
    \/ \E E \in EntTypes, C \in Types : EachEntityBegin(E, C)
    \/ \E id \in Ids : EachEntityIter(id)
    \/ EachEntityEnd
    \/ EachEntityReturn

SpecLinked == Init /\ [][NextLinked]_vars

\* ------------------------------------------------------------ goroutines
\* goroutine t may start a call at top level while no scan runs
MayCall(t) ==
    /\ thr[t].pc = "idle"
    /\ scan.status = "idle"

\* the call returns: to the caller, or to the visitor it was made from
Goto(t, pc) == [thr EXCEPT ![t].pc = pc]

Return(t) == [thr EXCEPT ![t] = IdleThread]

\* the frame of a statement that touches only its goroutine and the lock
LocalFrame ==
    UNCHANGED <<nextComponentID, components, entities, linked, arrays, ents,
                prev, returned, deleted, nDeleted>>

InAdd(t) == thr[t].pc \in {"add_lock", "add_id", "add_store", "add_inc",
                           "add_unlock"}

\* e.addComponent(c) is called
addComponent_call(t, c) ==
    /\ MayCall(t) \/ VisitorMay(t, "add")
    /\ scan' = callFrom(scan)
    /\ Len(returned) + Cardinality({u \in Threads : InAdd(u)}) < MaxAdds
    /\ thr' = [thr EXCEPT ![t] = [pc |-> "add_lock", id |-> NoId, c |-> c]]
    /\ lastOp' = StatementOp
    /\ UNCHANGED componentMtx
    /\ LocalFrame

\* e.componentMtx.Lock()
addComponent_Lock(t) ==
    /\ thr[t].pc = "add_lock"
    /\ canLock(componentMtx, t)
    /\ componentMtx' = t
    /\ thr' = Goto(t, "add_id")
    /\ lastOp' = StatementOp
    /\ UNCHANGED scan
    /\ LocalFrame

\* id := e.nextComponentID
addComponent_id(t) ==
    /\ thr[t].pc = "add_id"
    /\ thr' = [thr EXCEPT ![t].pc = "add_store",
                          ![t].id = assignID(nextComponentID)]
    /\ lastOp' = StatementOp
    /\ UNCHANGED <<componentMtx, scan>>
    /\ LocalFrame

\* e.components[id] = component
addComponent_store(t) ==
    /\ thr[t].pc = "add_store"
    /\ components' = storeSet(components, thr[t].id, thr[t].c)
    /\ scan' = scanAfter(scan, components, components')
    /\ thr' = Goto(t, "add_inc")
    /\ lastOp' = StatementOp
    /\ UNCHANGED <<nextComponentID, componentMtx, entities, linked, arrays, ents,
                   prev, returned, deleted, nDeleted>>

\* e.nextComponentID++
addComponent_inc(t) ==
    /\ thr[t].pc = "add_inc"
    /\ nextComponentID' = incrementID(nextComponentID)
    /\ thr' = Goto(t, "add_unlock")
    /\ lastOp' = StatementOp
    /\ UNCHANGED <<components, componentMtx, entities, linked, arrays, ents, scan,
                   prev, returned, deleted, nDeleted>>

\* return id, and the deferred Unlock
addComponent_return(t) ==
    /\ thr[t].pc = "add_unlock"
    /\ componentMtx' = Unlock(componentMtx)
    /\ returned' = Append(returned, thr[t].id)
    /\ thr' = Return(t)
    /\ prev' = prevAfter
    /\ lastOp' = StatementOp
    /\ UNCHANGED <<nextComponentID, components, entities, linked, arrays, ents, scan,
                   deleted, nDeleted>>

\* e.deleteComponent(id) is called
deleteComponent_call(t, id) ==
    /\ MayCall(t) \/ (VisitorMay(t, "delete") /\ id = scan.cur)
    /\ scan' = callFrom(scan)
    /\ thr' = [thr EXCEPT ![t] = [pc |-> "del_lock", id |-> id,
                                  c |-> IdleThread.c]]
    /\ lastOp' = StatementOp
    /\ UNCHANGED componentMtx
    /\ LocalFrame

\* e.componentMtx.Lock()
deleteComponent_Lock(t) ==
    /\ thr[t].pc = "del_lock"
    /\ canLock(componentMtx, t)
    /\ componentMtx' = t
    /\ thr' = Goto(t, "del_delete")
    /\ lastOp' = StatementOp
    /\ UNCHANGED scan
    /\ LocalFrame

\* delete(e.components, id)
deleteComponent_delete(t) ==
    /\ thr[t].pc = "del_delete"
    /\ LET d == deleteComponent(nextComponentID, components, thr[t].id)
       IN /\ components' = d.components
          /\ nextComponentID' = d.nextComponentID
    /\ scan' = scanAfter(scan, components, components')
    /\ thr' = Goto(t, "del_unlock")
    /\ lastOp' = StatementOp
    /\ UNCHANGED <<componentMtx, entities, linked, arrays, ents, prev, returned,
                   deleted, nDeleted>>

\* the deferred Unlock, and the return
deleteComponent_return(t) ==
    /\ thr[t].pc = "del_unlock"
    /\ componentMtx' = Unlock(componentMtx)
    /\ thr' = Return(t)
    /\ prev' = prevAfter
    /\ lastOp' = StatementOp
    /\ UNCHANGED <<nextComponentID, components, entities, linked, arrays, ents, scan,
                   returned, deleted, nDeleted>>

\* Set(&e, id, c) is called: at top level with any id, from the tests'
\* visitor with the id it was passed and a value of the scanned type
Set_call(t, id, c) ==
    /\ \/ MayCall(t)
       \/ VisitorMay(t, "set") /\ id = scan.cur /\ c.type = scan.T
    /\ scan' = callFrom(scan)
    /\ thr' = [thr EXCEPT ![t] = [pc |-> "set_lock", id |-> id, c |-> c]]
    /\ lastOp' = StatementOp
    /\ UNCHANGED componentMtx
    /\ LocalFrame

\* mutant: Set goes on to its write without taking the lock
Set_Lock_skipped(t) ==
    /\ thr[t].pc = "set_lock"
    /\ thr' = Goto(t, "set_store")
    /\ lastOp' = StatementOp
    /\ UNCHANGED <<componentMtx, scan>>
    /\ LocalFrame

\* engine.componentMtx.Lock()
Set_Lock(t) ==
    /\ thr[t].pc = "set_lock"
    /\ canLock(componentMtx, t)
    /\ componentMtx' = t
    /\ thr' = Goto(t, "set_store")
    /\ lastOp' = StatementOp
    /\ UNCHANGED scan
    /\ LocalFrame

\* engine.components[id] = component
Set_store(t) ==
    /\ thr[t].pc = "set_store"
    /\ components' = Set(components, thr[t].id, thr[t].c)
    /\ scan' = LET sc == scanAfter(scan, components, components')
               IN IF sc.status = "visit" /\ sc.f = "set"
                  THEN [sc EXCEPT !.wrote = storeSet(@, thr[t].id, thr[t].c)]
                  ELSE sc
    /\ thr' = Goto(t, "set_unlock")
    /\ lastOp' = StatementOp
    /\ UNCHANGED <<nextComponentID, componentMtx, entities, linked, arrays, ents,
                   prev, returned, deleted, nDeleted>>

\* the deferred Unlock, and the return
Set_return(t) ==
    /\ thr[t].pc = "set_unlock"
    /\ componentMtx' = Unlock(componentMtx)
    /\ thr' = Return(t)
    /\ prev' = prevAfter
    /\ lastOp' = StatementOp
    /\ UNCHANGED <<nextComponentID, components, entities, linked, arrays, ents, scan,
                   returned, deleted, nDeleted>>

\* the component values the goroutines pass
ConcComps == {Floater100, [type |-> "velocity", val |-> 500]}

\* the visitors of the scans of floaters that goroutine 1 runs
ConcVisitors == {"set", "add", "delete"}

\* one statement of one goroutine
Step(t) ==
    \/ \E c \in ConcComps : addComponent_call(t, c)
    \/ addComponent_Lock(t)
    \/ addComponent_id(t)
    \/ addComponent_store(t)
    \/ addComponent_inc(t)
    \/ addComponent_return(t)
    \/ \E id \in Ids : deleteComponent_call(t, id)
    \/ deleteComponent_Lock(t)
    \/ deleteComponent_delete(t)
    \/ deleteComponent_return(t)
    \/ \E id \in Ids, c \in ConcComps : Set_call(t, id, c)
    \/ Set_Lock(t)
    \/ Set_store(t)
    \/ Set_return(t)

\* a step of the Each call in progress
ScanStep ==
    \/ \E id \in Ids : EachIter(id)
    \/ VisitorReturn
    \/ EachEnd
    \/ EachReturn

NextConc ==
    \/ \E t \in Threads : Step(t)
    \/ \E f \in ConcVisitors : EachBegin(1, "floater", f)
    \/ ScanStep

SpecConc == Init /\ [][NextConc]_vars

\* the Go scheduler runs every goroutine that can take a step, and the
\* visitors return
SpecConcFair ==
    /\ SpecConc
    /\ \A t \in Threads : WF_vars(Step(t))
    /\ WF_vars(ScanStep)

\* ---------------------------------------------- linked model: goroutines
\* the entity the goroutines add components to
TestEntity == [type |-> "testEntity"]

\* the runtime has not ended the program with a fatal error
Running == dscan.status # "fatal"

\* goroutine t is inside a write to one of the maps
InMapWrite(t) == thr[t].pc \in {"ladd_store", "ladd_link", "del_delete"}

\* the range loop of DeleteComponent after the store changed from m to m2
dscanAfter(ds, m, m2) ==
    IF ds.status = "idle" THEN ds
    ELSE [ds EXCEPT !.fresh = (ds.fresh \cap DOMAIN m2)
                                 \cup (DOMAIN m2 \ DOMAIN m)]

\* e.addComponent(entity, c) of the linked model is called
linkedAddComponent_call(t, c) ==
    /\ Running
    /\ thr[t].pc = "idle"
    /\ scan.status = "idle" /\ escan.status = "idle"
    /\ ~(dscan.status # "idle" /\ dscan.owner = t)
    /\ nextComponentID
          + Cardinality({u \in Threads : thr[u].pc \in
                {"ladd_lock", "ladd_id", "ladd_store", "ladd_link"}}) < MaxAdds
    /\ thr' = [thr EXCEPT ![t] = [pc |-> "ladd_lock", id |-> NoId, c |-> c]]
    /\ lastOp' = Op("Engine.addComponent", FALSE, FALSE)
    /\ UNCHANGED <<componentMtx, scan, linked>>
    /\ LocalFrame

\* e.componentMtx.Lock()
linkedAddComponent_Lock(t) ==
    /\ Running
    /\ thr[t].pc = "ladd_lock"
    /\ canLock(componentMtx, t)
    /\ componentMtx' = t
    /\ thr' = Goto(t, "ladd_id")
    /\ lastOp' = Op("Engine.addComponent.Lock", FALSE, FALSE)
    /\ UNCHANGED <<scan, linked>>
    /\ LocalFrame

\* id := e.nextComponentID
linkedAddComponent_id(t) ==
    /\ Running
    /\ thr[t].pc = "ladd_id"
    /\ thr' = [thr EXCEPT ![t].pc = "ladd_store",
                          ![t].id = assignID(nextComponentID)]
    /\ lastOp' = Op("Engine.addComponent.id", FALSE, FALSE)
    /\ UNCHANGED <<componentMtx, scan, linked>>
    /\ LocalFrame

\* e.components[id] = component
linkedAddComponent_store(t) ==
    /\ Running
    /\ thr[t].pc = "ladd_store"
    /\ components' = storeSet(components, thr[t].id, thr[t].c)
    /\ dscan' = dscanAfter(dscan, components, components')
    /\ thr' = Goto(t, "ladd_link")
    /\ lastOp' = Op("Engine.addComponent.store", FALSE, FALSE)
    /\ UNCHANGED <<nextComponentID, componentMtx, entities, arrays, ents, scan,
                   prev, returned, deleted, nDeleted, links, escan>>

\* e.links[id] = entityComponentLink{entity, &component}
linkedAddComponent_link(t) ==
    /\ Running
    /\ thr[t].pc = "ladd_link"
    /\ links' = storeSet(links, thr[t].id, Link(TestEntity, thr[t].c))
    /\ thr' = Goto(t, "ladd_inc")
    /\ lastOp' = Op("Engine.addComponent.link", FALSE, FALSE)
    /\ UNCHANGED <<nextComponentID, components, componentMtx, entities, arrays,
                   ents, scan, prev, returned, deleted, nDeleted, escan, dscan>>

\* e.nextComponentID++
linkedAddComponent_inc(t) ==
    /\ Running
    /\ thr[t].pc = "ladd_inc"
    /\ nextComponentID' = incrementID(nextComponentID)
    /\ thr' = Goto(t, "ladd_unlock")
    /\ lastOp' = Op("Engine.addComponent.inc", FALSE, FALSE)
    /\ UNCHANGED <<components, componentMtx, entities, linked, arrays, ents,
                   scan, prev, returned, deleted, nDeleted>>

\* return id, and the deferred Unlock
linkedAddComponent_return(t) ==
    /\ Running
    /\ thr[t].pc = "ladd_unlock"
    /\ componentMtx' = Unlock(componentMtx)
    /\ returned' = Append(returned, thr[t].id)
    /\ thr' = Return(t)
    /\ lastOp' = Op("Engine.addComponent.return", FALSE, FALSE)
    /\ UNCHANGED <<nextComponentID, components, entities, linked, arrays, ents,
                   scan, prev, deleted, nDeleted>>

\* e.DeleteComponent(component) is called by goroutine t
DeleteComponent_call(t, component) ==
    /\ thr[t].pc = "idle"
    /\ CallerCtx
    /\ dscan' = [IdleDScan EXCEPT !.status = "iter", !.owner = t,
                                  !.c = component]
    /\ lastOp' = Op("Engine.DeleteComponent", FALSE, FALSE)
    /\ UNCHANGED <<nextComponentID, components, componentMtx, entities, arrays,
                   ents, thr, scan, prev, returned, deleted, nDeleted, links,
                   escan>>

\* one iteration of its range loop over the store, read without the lock
DeleteComponent_iter(id) ==
    /\ dscan.status = "iter"
    /\ thr[dscan.owner].pc = "idle"
    /\ id \in DOMAIN components \ dscan.seen
    /\ dscan' = IF components[id] = dscan.c
                THEN [dscan EXCEPT !.status = "match", !.cur = id,
                                   !.seen = @ \cup {id}, !.fresh = @ \ {id}]
                ELSE [dscan EXCEPT !.seen = @ \cup {id}, !.fresh = @ \ {id}]
    /\ lastOp' = Op("Engine.DeleteComponent.iter", FALSE, FALSE)
    /\ UNCHANGED <<nextComponentID, components, componentMtx, entities, arrays,
                   ents, thr, scan, prev, returned, deleted, nDeleted, links,
                   escan>>

\* delete(e.links, id), without the lock, and the call of e.deleteComponent(id)
DeleteComponent_unlink ==
    /\ dscan.status = "match"
    /\ links' = storeDelete(links, dscan.cur)
    /\ thr' = [thr EXCEPT ![dscan.owner] =
                  [pc |-> "del_lock", id |-> dscan.cur, c |-> IdleThread.c]]
    /\ dscan' = [dscan EXCEPT !.status = "iter", !.cur = NoId]
    /\ lastOp' = Op("Engine.DeleteComponent.unlink", FALSE, FALSE)
    /\ UNCHANGED <<nextComponentID, components, componentMtx, entities, arrays,
                   ents, scan, prev, returned, deleted, nDeleted, escan>>

\* the range loop ends and DeleteComponent returns
DeleteComponent_return ==
    /\ dscan.status = "iter"
    /\ thr[dscan.owner].pc = "idle"
    /\ (DOMAIN components \ dscan.seen) \subseteq dscan.fresh
    /\ dscan' = IdleDScan
    /\ lastOp' = Op("Engine.DeleteComponent.return", FALSE, FALSE)
    /\ UNCHANGED <<nextComponentID, components, componentMtx, entities, arrays,
                   ents, thr, scan, prev, returned, deleted, nDeleted, links,
                   escan>>

\* the unlocked loop reads the store, or writes the link table, while
\* another goroutine is inside a map write: the runtime may end the program
\* (fatal error: concurrent map iteration and map write, concurrent map
\* writes)
DeleteComponent_fatal ==
    /\ dscan.status \in {"iter", "match"}
    /\ thr[dscan.owner].pc = "idle"
    /\ \E u \in Threads \ {dscan.owner} : InMapWrite(u)
    /\ dscan' = [dscan EXCEPT !.status = "fatal"]
    /\ lastOp' = Op("fatal error", FALSE, FALSE)
    /\ UNCHANGED <<nextComponentID, components, componentMtx, entities, arrays,
                   ents, thr, scan, prev, returned, deleted, nDeleted, links,
                   escan>>

\* one statement of goroutine t in the linked model
LinkedStep(t) ==
    \/ \E c \in ConcComps : linkedAddComponent_call(t, c)
    \/ linkedAddComponent_Lock(t)
    \/ linkedAddComponent_id(t)
    \/ linkedAddComponent_store(t)
    \/ linkedAddComponent_link(t)
    \/ linkedAddComponent_inc(t)
    \/ linkedAddComponent_return(t)
    \/ \E c \in ConcComps : DeleteComponent_call(t, c)
    \/ deleteComponent_Lock(t)
    \/ deleteComponent_delete(t)
    \/ deleteComponent_return(t)

\* a step of the DeleteComponent call in progress
DeleteStep ==
    \/ \E id \in Ids : DeleteComponent_iter(id)
    \/ DeleteComponent_unlink
    \/ DeleteComponent_return
    \/ DeleteComponent_fatal

NextLinkedConc ==
    \/ \E t \in Threads : LinkedStep(t)
    \/ DeleteStep

SpecLinkedConc == Init /\ [][NextLinkedConc]_vars

\* ---------------------------------------------------------------- claims
Owned(v) == {View(arrays, ents[v].components)[i] :
                i \in 1..ents[v].components.len}

MatchingIds(T) == {id \in DOMAIN components : components[id].type = T}

\* C1: the ids addComponent returns are strictly increasing in call order
\* (hence pairwise distinct), the next-ID counter never decreases, and an id
\* DeleteComponent removed is never returned by a later add.
C1_IdsUniqueIncreasing ==
    [][/\ nextComponentID' >= nextComponentID
       /\ Len(returned') >= Len(returned)
       /\ SubSeq(returned', 1, Len(returned)) = returned
       /\ \A i \in (Len(returned) + 1)..Len(returned') :
            /\ \A j \in 1..(i - 1) : returned'[j] < returned'[i]
            /\ returned'[i] \notin deleted]_vars

\* an add has returned an id after an earlier id was deleted
C1_Witness ==
    /\ lastOp.op = "AddComponents"
    /\ Len(returned) >= 2
    /\ \E id \in deleted : id < returned[Len(returned)]

\* C2: when Each[T] with a visitor that does not touch the store has
\* finished, the visitor was called exactly once for each stored component
\* of type T and for no other, with that component's id and value, and the
\* counter equals the number of stored components of type T.
C2_EachVisitsExactlyT ==
    (scan.status = "done" /\ scan.f = "noop") =>
        /\ DOMAIN scan.visits = MatchingIds(scan.T)
        /\ \A id \in DOMAIN scan.visits :
               scan.visits[id] = <<components[id]>>
        /\ scan.counter = Cardinality(MatchingIds(scan.T))

\* a finished scan over a store holding components of T and others
C2_Witness ==
    /\ scan.status = "done"
    /\ scan.f = "noop"
    /\ scan.counter >= 1
    /\ Cardinality(DOMAIN components) > scan.counter

\* C3: a scan whose visitor calls Set(engine, id, v) for each visited id,
\* with v of the scanned type, visits each id once and leaves the number of
\* components of T and the store size unchanged; the next scan of T then
\* visits exactly those ids, each once, and is passed the value written.
C3_MutationRoundTrip ==
    /\ (scan.status = "done" /\ scan.f = "set") =>
          /\ DOMAIN scan.visits = MatchingIds(scan.T)
          /\ DOMAIN scan.wrote = DOMAIN scan.visits
          /\ \A id \in DOMAIN scan.visits :
                /\ Len(scan.visits[id]) = 1
                /\ components[id] = scan.wrote[id]
          /\ Cardinality(MatchingIds(scan.T)) = scan.nT0
          /\ Cardinality(DOMAIN components) = scan.size0
    /\ (scan.status = "done" /\ scan.f = "noop" /\ prev.valid
            /\ prev.T = scan.T) =>
          /\ DOMAIN scan.visits = DOMAIN prev.wrote
          /\ \A id \in DOMAIN scan.visits :
                 scan.visits[id] = <<prev.wrote[id]>>
          /\ scan.counter = Cardinality(DOMAIN prev.wrote)

\* the second scan has finished after a scan that wrote new values to two
\* components
C3_Witness ==
    /\ scan.status = "done"
    /\ scan.f = "noop"
    /\ prev.valid
    /\ prev.T = scan.T
    /\ Cardinality(DOMAIN prev.wrote) = 2
    /\ \A id \in DOMAIN prev.wrote : prev.wrote[id].val = 135

\* C5: Set with an id that is not a key of the store changes neither the
\* store, nor the counter, nor the entity list.
C5_SetAbsentIsNoop ==
    [][(lastOp'.op = "Set" /\ ~lastOp'.present) =>
          /\ components' = components
          /\ nextComponentID' = nextComponentID
          /\ entities' = entities]_vars

\* C6: an id DeleteComponent removed is never passed to an Each visitor
\* again and is not listed by an entity's GetComponents.
C6_DeletedNeverReported ==
    \A id \in deleted :
        /\ id \notin DOMAIN scan.visits
        /\ \A v \in EntVars : id \notin Owned(v)

\* the goroutines whose addComponent has assigned its id
Assigned == {t \in Threads : thr[t].pc \in {"add_store", "add_inc", "add_unlock"}}

\* C9: under every interleaving of addComponent, deleteComponent and Set
\* calls of several goroutines, the ids returned by adds and the ids of the
\* adds in progress are pairwise distinct, an add that has stored its
\* component finds it in the store until it returns, and once no add is in
\* progress the counter has grown by the number of adds.
C9_AddAtomic ==
    /\ \A i, j \in 1..Len(returned) : i < j => returned[i] # returned[j]
    /\ \A t \in Assigned :
          /\ \A i \in 1..Len(returned) : returned[i] # thr[t].id
          /\ \A u \in Assigned \ {t} : thr[u].id # thr[t].id
    /\ \A t \in Threads : thr[t].pc \in {"add_inc", "add_unlock"} =>
          /\ thr[t].id \in DOMAIN components
          /\ components[thr[t].id] = thr[t].c
    /\ (\A t \in Threads : ~InAdd(t)) => nextComponentID = Len(returned)

\* an add holds the lock, its component stored, while another goroutine's
\* add waits for the lock
C9_Witness ==
    /\ \E t, u \in Threads :
          /\ thr[t].pc = "add_inc"
          /\ thr[u].pc = "add_lock"

AtLock(t) == thr[t].pc \in {"add_lock", "del_lock", "set_lock"}

C4_CountInvariant ==
    Cardinality(DOMAIN components) = Len(returned) - nDeleted

\* all the components were added and one of them deleted
C4_Witness ==
    /\ lastOp.op = "DeleteComponent"
    /\ lastOp.hit
    /\ Len(returned) = MaxAdds
    /\ Cardinality(DOMAIN components) = MaxAdds - 1

\* C7: DeleteComponent with an id the entity does not own changes nothing,
\* whether or not the id is a key of the store.
C7_IdempotentCleanup ==
    [][(lastOp'.op = "DeleteComponent" /\ ~lastOp'.hit) =>
          /\ components' = components
          /\ nextComponentID' = nextComponentID
          /\ entities' = entities
          /\ ents' = ents
          /\ arrays' = arrays]_vars

\* an entity was asked to delete an id that another entity owns
C7_Witness ==
    /\ lastOp.op = "DeleteComponent"
    /\ ~lastOp.hit
    /\ lastOp.present

\* a second delete of the same id
C7_WitnessTwice ==
    /\ lastOp.op = "DeleteComponent"
    /\ ~lastOp.hit
    /\ ~lastOp.present
    /\ deleted # {}

\* the positions of the registered entities equal to entity variable v
EqualAt(v) == {i \in 1..Len(entities) : DeepEqual(arrays, entities[i], ents[v])}

MatchingLinks(E, C) ==
    {id \in DOMAIN links : /\ links[id].component.type = C
                           /\ links[id].entity.type = E}

GetComponents(v) == View(arrays, ents[v].components)

\* the sequence s without its elements equal to id
Without(s, id) == SelectSeq(s, LAMBDA x : x # id)

\* C15: AddComponents(engine, c1..cn) appends to the owned ids the n ids the
\* adds returned, in the order of the arguments (the i-th new id holds ci);
\* DeleteComponent of an owned id removes that id and keeps the others in
\* their order; the list is strictly increasing, hence free of duplicates.
C15_OwnedIdOrder ==
    [][/\ \A cs \in Batches(Comps) : CallAddComponentsOwned(cs) =>
             LET new == SubSeq(returned', Len(returned) + 1, Len(returned'))
             IN /\ Len(new) = Len(cs)
                /\ GetComponents(1)' = GetComponents(1) \o new
                /\ \A i \in 1..Len(cs) : components'[new[i]] = cs[i]
       /\ \A id \in 0..(MaxOwned - 1) : CallDeleteComponent(1, id) =>
             /\ GetComponents(1)' = Without(GetComponents(1), id)
             /\ Len(GetComponents(1)') >= Len(GetComponents(1)) - 1
       /\ \A i, j \in 1..Len(GetComponents(1)') :
             i < j => GetComponents(1)'[i] < GetComponents(1)'[j]]_vars

\* the first of three owned ids was deleted, the other two stay in order
C15_Witness ==
    /\ lastOp.op = "DeleteComponent"
    /\ lastOp.hit
    /\ GetComponents(1) = <<1, 2>>

\* goroutine t is between the Lock and the Unlock of addComponent,
\* deleteComponent or Set
InSection(t) ==
    thr[t].pc \in {"add_id", "add_store", "add_inc", "add_unlock",
                   "del_delete", "del_unlock", "set_store", "set_unlock"}

\* C16: under every interleaving of addComponent, deleteComponent and Set
\* calls at most one goroutine is inside a section that writes the store or
\* the counter, it holds the component lock, and every step that changes
\* the store or the counter is taken by the holder of the lock.
C16_MutualExclusion ==
    /\ [](\A t \in Threads : InSection(t) =>
            /\ componentMtx = t
            /\ \A u \in Threads \ {t} : ~InSection(u))
    /\ [][(components' # components \/ nextComponentID' # nextComponentID) =>
            \E t \in Threads : /\ componentMtx = t
                                /\ componentMtx' = t
                                /\ InSection(t)
                                /\ thr'[t] # thr[t]]_vars

\* Set is about to write the store while a delete waits for the lock
C16_Witness ==
    \E t, u \in Threads :
        /\ thr[t].pc = "set_store"
        /\ componentMtx = t
        /\ thr[u].pc = "del_lock"

\* C18: every key of the store is below the next-ID counter, so the id an
\* add assigns is not a key of the store and no add overwrites a component.
C18_KeysBelowCounter ==
    /\ [](\A id \in DOMAIN components : id < nextComponentID)
    /\ [][\A i \in (Len(returned) + 1)..Len(returned') :
            returned'[i] \notin DOMAIN components]_vars

\* the registered entities that are copies of entity variable v: they share
\* its backing array
RegisteredFrom(v) ==
    {i \in 1..Len(entities) :
        /\ entities[i].components.arr # 0
        /\ entities[i].components.arr = ents[v].components.arr}

\* C19: every id in the owned-ID list of a registered entity is a key of
\* the store, and RemoveEntity with the caller's entity removes its
\* registered copy, also after components were added to or deleted from the
\* caller's entity.
C19_RegistryConsistent ==
    /\ [](\A i \in 1..Len(entities) :
            \A j \in 1..entities[i].components.len :
                View(arrays, entities[i].components)[j] \in DOMAIN components)
    /\ [][\A v \in EntVars :
            (CallRemoveEntity(v) /\ RegisteredFrom(v) # {}) =>
                Len(entities') = Len(entities) - 1]_vars

\* C12: no call on an engine made by NewEngine panics: EachEntity never
\* aborts, also after Set stored a value of another type under a linked id.
C12_NoPanic == escan.status # "panic"

\* C17: Engine.DeleteComponent(c) with a stored component equal to c removes
\* one component and one link and leaves every other id as it was.
C17_DeleteSingle ==
    [][(lastOp'.op = "Engine.DeleteComponent" /\ lastOp'.hit) =>
          /\ Cardinality(DOMAIN components') = Cardinality(DOMAIN components) - 1
          /\ Cardinality(DOMAIN links') = Cardinality(DOMAIN links) - 1
          /\ \A id \in DOMAIN components' : components'[id] = components[id]
          /\ \A id \in DOMAIN links' : links'[id] = links[id]]_vars

\* C13: in every state, the intermediate states of an add and of a
\* DeleteComponent included, the components in the store (all added through
\* the linked add) are exactly the ids that have a link.
C13_LinkInvariant == DOMAIN links = DOMAIN components
====
